---- MODULE Spec2Model ----
(***************************************************************************)
(* Model of infra/deploy-yourself/create-indexes.py: main() runs the two   *)
(* jobs hrdocs and healthdocs one after the other; create_index()          *)
(* publishes the index definition and streams the records file to the      *)
(* search service in batches, inside one try/except Exception.             *)
(*                                                                         *)
(* Every call to a collaborator (search service, client construction, log  *)
(* sink) is one outcome drawn from a small set: "ok" or the kind of the    *)
(* exception it raises.  The records file is read one line per step; a     *)
(* line is "good" (json.loads succeeds) or "bad" (json.loads raises        *)
(* json.JSONDecodeError).  The good line number n carries record n, so     *)
(* records are distinct and their file order is visible.                   *)
(***************************************************************************)
EXTENDS Integers, Sequences, FiniteSets, TLC

\* batch_size is 100 in the source (line 86).  The model runs it at a small
\* value so that full, partial and overfull batches all occur within
\* MaxLines lines; every formula is stated in terms of batch_size.
batch_size == 2
\* longest records file read by a job
MaxLines == 5
\* most exceptions the collaborators raise in one run
MaxFaults == 2

\* the fixed job list of main (lines 135-153), in execution order
JobNames == <<"hrdocs", "healthdocs">>
JobIds == 1..Len(JobNames)

azure_openai_endpoint == "https://embed.example"

\* kinds of exception a search-service call can raise.  JSONDecodeError
\* stands for any instance of json.JSONDecodeError, HttpResponseError for
\* every other subclass of Exception.
ServiceErrors == {"HttpResponseError", "JSONDecodeError"}

\* index.json, shared by both jobs: absent, not JSON, or a definition
NoIndex == [name |-> "", vectorizers |-> <<>>, fields |-> ""]
Definitions ==
    { [name |-> "template", vectorizers |-> v, fields |-> "f"] :
        v \in {<<>>, <<"old">>, <<"old", "other">>} }
IndexFiles ==
    { [state |-> "missing", def |-> NoIndex],
      [state |-> "invalid_json", def |-> NoIndex] }
    \cup { [state |-> "ok", def |-> d] : d \in Definitions }

NoRemote == [exists |-> FALSE, index |-> NoIndex, docs |-> {}]

VARIABLES
    pc,             \* position of main: start, job, delay, summary, exited
    results,        \* dict of main, in insertion order: <<name, outcome>>
    exitStatus,     \* exit status of the process, -1 while it runs
    crash,          \* where an uncaught exception left: none, main, create_index
    dataDir,        \* data_dir.exists()
    indexFile,      \* content of index.json
    logSink,        \* "reliable": log_message never raises; "faulty": it may
    faults,         \* exceptions raised by collaborators so far
    cur,            \* job being run (0 before the first)
    cpc,            \* position of create_index
    exc,            \* exception caught at line 111
    ret,            \* value returned by create_index
    idxClient,      \* SearchIndexClient of line 57 is open
    docClient,      \* SearchClient of line 76 is open
    index,          \* local index (lines 67-69)
    line_num,       \* lines of the records file read so far
    records,        \* local records: the batch being filled
    total_uploaded, \* local total_uploaded
    remote,         \* the search service: per index name, definition and documents
    calls,          \* history: upload_documents calls of the current job
    lines,          \* history: the lines read by the current job, in file order
    published,      \* history: create_or_update_index succeeded in the current job
    cause,          \* history: per job, the step whose exception reached line 111
    errlog,         \* history: error lines written at line 112
    log,            \* history: the log lines written by the current job
    delays          \* history: asyncio.sleep calls that have returned

envVars == <<dataDir, indexFile, logSink>>
mainVars == <<pc, results, exitStatus, crash>>
localVars == <<index, line_num, records, total_uploaded>>
histVars == <<calls, lines, published, log>>
vars == <<pc, results, exitStatus, crash, dataDir, indexFile, logSink, faults,
          cur, cpc, exc, ret, idxClient, docClient, index, line_num, records,
          total_uploaded, remote, calls, lines, published, cause, errlog,
          log, delays>>

----------------------------------------------------------------------------
\* Outcomes of the collaborators

\* log_message: open(log_file, "a") and print can raise OSError
LogOutcomes(used) ==
    IF logSink = "faulty" /\ faults + used < MaxFaults
    THEN {"ok", "OSError"} ELSE {"ok"}

\* create_or_update_index, upload_documents
ServiceOutcomes ==
    IF faults < MaxFaults THEN {"ok"} \cup ServiceErrors ELSE {"ok"}

\* SearchIndexClient(...), SearchClient(...) and their __aenter__
ClientOutcomes ==
    IF faults < MaxFaults THEN {"ok", "ValueError"} ELSE {"ok"}

\* next line of the records file: one more line, or end of file
NextLines ==
    IF line_num < MaxLines THEN {"good", "bad", "eof"} ELSE {"eof"}

----------------------------------------------------------------------------
\* Pure helpers

\* results[name] = value on an insertion-ordered dict
DictSet(d, name, value) ==
    IF \E i \in 1..Len(d) : d[i][1] = name
    THEN [i \in 1..Len(d) |-> IF d[i][1] = name THEN <<name, value>> ELSE d[i]]
    ELSE Append(d, <<name, value>>)

DictKeys(d) == [i \in 1..Len(d) |-> d[i][1]]

\* success_count == len(results) ? 0 : 1   (lines 161, 168-175)
ExitCodeAnySuccess(d) ==
    IF \E i \in 1..Len(d) : d[i][2] THEN 0 ELSE 1
ExitCode(d) ==
    LET success_count == Cardinality({i \in 1..Len(d) : d[i][2]})
    IN  IF success_count = Len(d) THEN 0 ELSE 1

\* index.name = index_name; vectorizers[0]...resource_url = endpoint
\* (lines 68-69); the caller checks that vectorizers[0] exists
ParameterizeAllVectorizers(def, name) ==
    [def EXCEPT !.name = name,
                !.vectorizers = [i \in 1..Len(def.vectorizers) |-> azure_openai_endpoint]]
Parameterize(def, name) ==
    [def EXCEPT !.name = name,
                !.vectorizers = [def.vectorizers EXCEPT ![1] = azure_openai_endpoint]]

\* len(records) >= batch_size   (line 94)
BatchFullStrict(recs) == Len(recs) > batch_size
BatchFull(recs) == Len(recs) >= batch_size

\* the batch after a line was skipped by "continue" (lines 99-101)
SkipLineDropsBatch(recs) == <<>>
SkipLine(recs) == recs

\* if records:   (line 104)
NeedsFlushAlways(recs) == TRUE
NeedsFlushOnlyFull(recs) == Len(recs) >= batch_size
NeedsFlush(recs) == recs # <<>>

\* the documents of a sequence of records, as the service stores them
Docs(recs) == {recs[i] : i \in 1..Len(recs)}

\* except json.JSONDecodeError   (line 99): the handler of the inner try
CaughtInLoop(kind) == kind = "JSONDecodeError"

\* total_uploaded += len(records)   (lines 96 and 106)
AddUploadedBatchSize(total, recs) == total + batch_size
AddUploaded(total, recs) == total + Len(recs)

\* The log lines of create_index, as the values their f-strings interpolate:
\* index_name is "" and n is -1 in a line that does not carry them.
LogLine(text, name, n, detail) ==
    [text |-> text, index_name |-> name, n |-> n, detail |-> detail]
\* line 54
StartLine(name) == LogLine("Starting index creation", name, -1, "")
\* line 63
ReadingDefLine == LogLine("Reading index definition", "", -1, "")
\* line 71
CreatingLine == LogLine("Creating index", "", -1, "")
\* line 73
CreatedLine(name) == LogLine("Index created successfully", name, -1, "")
\* line 82
ReadingDocsLine == LogLine("Reading documents", "", -1, "")
\* line 97
UploadedLine(total) == LogLine("Uploaded documents", "", total, "")
\* line 100: f"Skipping invalid JSON on line {line_num}: {e}"
WarningLineZeroBased(n, e) == LogLine("Skipping invalid JSON", "", n - 1, e)
WarningLine(n, e) == LogLine("Skipping invalid JSON", "", n, e)
\* line 108
DoneLine(name, total) == LogLine("Index created with documents", name, total, "")
\* line 112
ErrorLine(name, kind) == LogLine("Error", name, -1, kind)

\* the values create_index hands back to its caller   (lines 109 and 113)
Returned(succeeded, total) == <<succeeded>>

----------------------------------------------------------------------------
Init ==
    /\ pc = "start" /\ results = <<>> /\ exitStatus = -1 /\ crash = "none"
    /\ dataDir \in BOOLEAN
    /\ indexFile \in IndexFiles
    /\ logSink = "reliable"
    /\ faults = 0
    /\ cur = 0 /\ cpc = "idle" /\ exc = "none" /\ ret = FALSE
    /\ idxClient = FALSE /\ docClient = FALSE
    /\ index = NoIndex /\ line_num = 0 /\ records = <<>> /\ total_uploaded = 0
    /\ remote = [n \in {JobNames[j] : j \in JobIds} |-> NoRemote]
    /\ calls = <<>> /\ lines = <<>> /\ published = FALSE
    /\ cause = [j \in JobIds |-> "none"]
    /\ errlog = <<>> /\ log = <<>> /\ delays = 0

\* the same program with a log sink that can fail
InitLogFaults ==
    /\ pc = "start" /\ results = <<>> /\ exitStatus = -1 /\ crash = "none"
    /\ dataDir \in BOOLEAN
    /\ indexFile \in IndexFiles
    /\ logSink = "faulty"
    /\ faults = 0
    /\ cur = 0 /\ cpc = "idle" /\ exc = "none" /\ ret = FALSE
    /\ idxClient = FALSE /\ docClient = FALSE
    /\ index = NoIndex /\ line_num = 0 /\ records = <<>> /\ total_uploaded = 0
    /\ remote = [n \in {JobNames[j] : j \in JobIds} |-> NoRemote]
    /\ calls = <<>> /\ lines = <<>> /\ published = FALSE
    /\ cause = [j \in JobIds |-> "none"]
    /\ errlog = <<>> /\ log = <<>> /\ delays = 0

----------------------------------------------------------------------------
\* Control transfers

\* An exception raised inside the try of create_index reaches line 111.  On
\* the way it leaves the async-with blocks, which close the clients.
\* used: the exceptions the collaborators raised in this step.
RaiseLeavesClientsOpen(kind, step, used) ==
    /\ cpc' = "except"
    /\ exc' = kind
    /\ cause' = [cause EXCEPT ![cur] = step]
    /\ faults' = faults + used
    /\ UNCHANGED <<idxClient, docClient>>
Raise(kind, step, used) ==
    /\ cpc' = "except"
    /\ exc' = kind
    /\ cause' = [cause EXCEPT ![cur] = step]
    /\ faults' = faults + used
    /\ idxClient' = FALSE
    /\ docClient' = FALSE

\* the step ends normally and create_index goes on at next
Continue(next) ==
    /\ cpc' = next
    /\ UNCHANGED <<exc, cause, faults>>

\* An exception nobody catches leaves main: asyncio.run re-raises it and the
\* interpreter ends with a traceback and exit status 1.
Uncaught(where) ==
    /\ pc' = "exited"
    /\ exitStatus' = 1
    /\ crash' = where
    /\ faults' = faults + 1

\* await create_index(...): a fresh call frame for job j
CallCreateIndex(j) ==
    /\ cur' = j
    /\ cpc' = "begin"
    /\ exc' = "none"
    /\ ret' = FALSE
    /\ index' = NoIndex /\ line_num' = 0 /\ records' = <<>> /\ total_uploaded' = 0
    /\ calls' = <<>> /\ lines' = <<>> /\ published' = FALSE /\ log' = <<>>

----------------------------------------------------------------------------
\* main

\* lines 117-135: banner, data directory check, results = {}, first call
MainStartIgnoresDataDir ==
    /\ pc = "start"
    /\ \E lo \in LogOutcomes(0) :
        IF lo # "ok"
        THEN /\ Uncaught("main")
             /\ UNCHANGED <<results, cur, cpc, exc, ret, localVars, histVars>>
        ELSE /\ pc' = "job"
             /\ results' = <<>>
             /\ CallCreateIndex(1)
             /\ UNCHANGED <<exitStatus, crash, faults>>
    /\ UNCHANGED <<envVars, idxClient, docClient, remote, cause, errlog, delays>>
MainStart ==
    /\ pc = "start"
    /\ \E lo \in LogOutcomes(0) :
        IF lo # "ok"
        THEN /\ Uncaught("main")
             /\ UNCHANGED <<results, cur, cpc, exc, ret, localVars, histVars>>
        ELSE IF ~dataDir
        THEN /\ pc' = "exited" /\ exitStatus' = 1
             /\ UNCHANGED <<crash, faults, results, cur, cpc, exc, ret,
                            localVars, histVars>>
        ELSE /\ pc' = "job"
             /\ results' = <<>>
             /\ CallCreateIndex(1)
             /\ UNCHANGED <<exitStatus, crash, faults>>
    /\ UNCHANGED <<envVars, idxClient, docClient, remote, cause, errlog, delays>>

\* lines 135 and 149: results[name] = the returned value; then the log lines
\* that follow the call (142-143 after the first job, 156-159 after the last)
StoreResult ==
    /\ pc = "job" /\ cpc = "returned"
    /\ results' = DictSet(results, JobNames[cur], ret)
    /\ \E lo \in LogOutcomes(0) :
        IF lo # "ok"
        THEN Uncaught("main")
        ELSE /\ pc' = IF cur < Len(JobNames) THEN "delay" ELSE "summary"
             /\ UNCHANGED <<exitStatus, crash, faults>>
    /\ UNCHANGED <<envVars, cur, cpc, exc, ret, idxClient, docClient,
                   localVars, remote, histVars, cause, errlog, delays>>

\* lines 144-149: asyncio.sleep(5) returns, two log lines, next call
DelayOnlyAfterSuccess ==
    /\ pc = "delay"
    /\ delays' = IF results[cur][2] THEN delays + 1 ELSE delays
    /\ \E lo \in LogOutcomes(0) :
        IF lo # "ok"
        THEN /\ Uncaught("main")
             /\ UNCHANGED <<cur, cpc, exc, ret, localVars, histVars>>
        ELSE /\ pc' = "job"
             /\ CallCreateIndex(cur + 1)
             /\ UNCHANGED <<exitStatus, crash, faults>>
    /\ UNCHANGED <<envVars, results, idxClient, docClient, remote, cause, errlog>>
Delay ==
    /\ pc = "delay"
    /\ delays' = delays + 1
    /\ \E lo \in LogOutcomes(0) :
        IF lo # "ok"
        THEN /\ Uncaught("main")
             /\ UNCHANGED <<cur, cpc, exc, ret, localVars, histVars>>
        ELSE /\ pc' = "job"
             /\ CallCreateIndex(cur + 1)
             /\ UNCHANGED <<exitStatus, crash, faults>>
    /\ UNCHANGED <<envVars, results, idxClient, docClient, remote, cause, errlog>>

\* lines 161-179: summary lines, return 0 or 1, sys.exit(exit_code)
Summary ==
    /\ pc = "summary"
    /\ \E lo \in LogOutcomes(0) :
        IF lo # "ok"
        THEN Uncaught("main")
        ELSE /\ pc' = "exited"
             /\ exitStatus' = ExitCode(results)
             /\ UNCHANGED <<crash, faults>>
    /\ UNCHANGED <<envVars, results, cur, cpc, exc, ret, idxClient, docClient,
                   localVars, remote, histVars, cause, errlog, delays>>

----------------------------------------------------------------------------
\* create_index

\* lines 54-57: first log line, SearchIndexClient opened
BeginJob ==
    /\ pc = "job" /\ cpc = "begin"
    /\ \E lo \in LogOutcomes(0), co \in ClientOutcomes :
        /\ IF lo # "ok" THEN Raise(lo, "begin", 1)
           ELSE IF co # "ok" THEN Raise(co, "begin", 1)
           ELSE /\ Continue("load")
                /\ idxClient' = TRUE
                /\ docClient' = docClient
        /\ log' = IF lo = "ok" THEN Append(log, StartLine(JobNames[cur])) ELSE log
    /\ UNCHANGED <<envVars, mainVars, cur, ret, localVars, remote, calls, lines,
                   published, errlog, delays>>

\* lines 58-71: the schema file is checked, read, deserialized and
\* parameterized; index.name is set before vectorizers[0] is addressed
LoadSchema ==
    /\ pc = "job" /\ cpc = "load"
    /\ \E lo \in LogOutcomes(0) :
        IF indexFile.state = "missing"
        THEN Raise("FileNotFoundError", "load", 0) /\ UNCHANGED <<index, log>>
        ELSE IF lo # "ok"
        THEN Raise(lo, "load", 1) /\ UNCHANGED <<index, log>>
        ELSE IF indexFile.state = "invalid_json"
        THEN /\ Raise("JSONDecodeError", "load", 0)
             /\ index' = index
             /\ log' = Append(log, ReadingDefLine)
        ELSE IF Len(indexFile.def.vectorizers) = 0
        THEN /\ Raise("IndexError", "load", 0)
             /\ index' = [indexFile.def EXCEPT !.name = JobNames[cur]]
             /\ log' = Append(log, ReadingDefLine)
        ELSE /\ Continue("publish")
             /\ UNCHANGED <<idxClient, docClient>>
             /\ index' = Parameterize(indexFile.def, JobNames[cur])
             /\ log' = log \o <<ReadingDefLine, CreatingLine>>
    /\ UNCHANGED <<envVars, mainVars, cur, ret, line_num, records,
                   total_uploaded, remote, calls, lines, published, errlog, delays>>

\* lines 72-74: create_or_update_index replaces the definition of that name;
\* then the success line, and the index client is closed.  A service call
\* that raises is taken to have changed nothing on the service.
PublishIndex ==
    /\ pc = "job" /\ cpc = "publish"
    /\ \E so \in ServiceOutcomes :
        IF so # "ok"
        THEN Raise(so, "publish", 1) /\ UNCHANGED <<remote, published, log>>
        ELSE /\ remote' = [remote EXCEPT ![JobNames[cur]] =
                              [@ EXCEPT !.exists = TRUE, !.index = index]]
             /\ published' = TRUE
             /\ \E lo \in LogOutcomes(0) :
                  IF lo # "ok" THEN Raise(lo, "publish_log", 1) /\ log' = log
                  ELSE /\ Continue("docs")
                       /\ idxClient' = FALSE
                       /\ docClient' = docClient
                       /\ log' = Append(log, CreatedLine(JobNames[cur]))
    /\ UNCHANGED <<envVars, mainVars, cur, ret, localVars, calls, lines, errlog,
                   delays>>

\* lines 76-88: SearchClient opened, records file checked and opened,
\* records = [], total_uploaded = 0
OpenRecords ==
    /\ pc = "job" /\ cpc = "docs"
    /\ \E co \in ClientOutcomes, exists \in BOOLEAN, lo \in LogOutcomes(0) :
        IF co # "ok" THEN Raise(co, "open_docs", 1) /\ UNCHANGED <<localVars, log>>
        ELSE IF ~exists
        THEN /\ Raise("FileNotFoundError", "records_missing", 0)
             /\ UNCHANGED <<localVars, log>>
        ELSE IF lo # "ok" THEN Raise(lo, "open_docs", 1) /\ UNCHANGED <<localVars, log>>
        ELSE /\ Continue("read")
             /\ docClient' = TRUE
             /\ idxClient' = idxClient
             /\ records' = <<>> /\ total_uploaded' = 0 /\ line_num' = 0
             /\ index' = index
             /\ log' = Append(log, ReadingDocsLine)
    /\ UNCHANGED <<envVars, mainVars, cur, ret, remote, calls, lines, published,
                   errlog, delays>>

\* lines 89-94 and 99-101: one line of the file.  A good line is appended to
\* the batch; a bad line is logged and skipped; at end of file the loop ends.
ReadLine ==
    /\ pc = "job" /\ cpc = "read"
    /\ \E ln \in NextLines, lo \in LogOutcomes(0) :
        IF ln = "eof"
        THEN /\ Continue("flush")
             /\ UNCHANGED <<idxClient, docClient, line_num, records, lines, log>>
        ELSE /\ line_num' = line_num + 1
             /\ lines' = Append(lines, ln)
             /\ IF ln = "good"
                THEN /\ records' = Append(records, line_num')
                     /\ Continue(IF BatchFull(records') THEN "upload" ELSE "read")
                     /\ UNCHANGED <<idxClient, docClient, log>>
                ELSE IF lo # "ok"
                THEN Raise(lo, "warning_log", 1) /\ UNCHANGED <<records, log>>
                ELSE /\ Continue("read")
                     /\ UNCHANGED <<idxClient, docClient>>
                     /\ records' = SkipLine(records)
                     /\ log' = Append(log, WarningLine(line_num', "JSONDecodeError"))
    /\ UNCHANGED <<envVars, mainVars, cur, ret, index, total_uploaded, remote,
                   calls, published, errlog, delays>>

\* lines 95-98 and 99-101: upload_documents for a full batch.  The call sits
\* inside the try of the loop, so an exception it raises is first offered to
\* "except json.JSONDecodeError".
UploadBatch ==
    /\ pc = "job" /\ cpc = "upload"
    /\ \E so \in ServiceOutcomes :
        /\ calls' = Append(calls, [docs |-> records, ok |-> so = "ok"])
        /\ IF so = "ok"
           THEN /\ remote' = [remote EXCEPT ![JobNames[cur]].docs = @ \cup Docs(records)]
                /\ total_uploaded' = AddUploaded(total_uploaded, records)
                /\ \E lo \in LogOutcomes(0) :
                     IF lo # "ok"
                     THEN Raise(lo, "upload_log", 1) /\ UNCHANGED <<records, log>>
                     ELSE /\ Continue("read")
                          /\ UNCHANGED <<idxClient, docClient>>
                          /\ records' = <<>>
                          /\ log' = Append(log, UploadedLine(total_uploaded'))
           ELSE IF CaughtInLoop(so)
           THEN /\ UNCHANGED <<remote, total_uploaded>>
                /\ \E lo \in LogOutcomes(1) :
                     IF lo # "ok"
                     THEN Raise(lo, "warning_log", 2) /\ UNCHANGED <<records, log>>
                     ELSE /\ cpc' = "read"
                          /\ faults' = faults + 1
                          /\ UNCHANGED <<exc, cause, idxClient, docClient>>
                          /\ records' = SkipLine(records)
                          /\ log' = Append(log, WarningLine(line_num, so))
           ELSE /\ Raise(so, "upload", 1)
                /\ UNCHANGED <<remote, total_uploaded, records, log>>
    /\ UNCHANGED <<envVars, mainVars, cur, ret, index, line_num, lines,
                   published, errlog, delays>>

\* lines 103-109: the file is closed, the remaining records are uploaded,
\* the document client is closed, the last line is logged, return True
FlushRemaining ==
    /\ pc = "job" /\ cpc = "flush"
    /\ \E so \in ServiceOutcomes :
        LET flush == NeedsFlush(records) IN
        /\ calls' = IF flush
                    THEN Append(calls, [docs |-> records, ok |-> so = "ok"])
                    ELSE calls
        /\ IF flush /\ so # "ok"
           THEN /\ Raise(so, "flush", 1)
                /\ UNCHANGED <<remote, total_uploaded, ret, log>>
           ELSE /\ remote' = IF flush
                             THEN [remote EXCEPT ![JobNames[cur]].docs = @ \cup Docs(records)]
                             ELSE remote
                /\ total_uploaded' = IF flush THEN AddUploaded(total_uploaded, records)
                                     ELSE total_uploaded
                /\ \E lo \in LogOutcomes(0) :
                     IF lo # "ok"
                     THEN Raise(lo, "done_log", 1) /\ UNCHANGED <<ret, log>>
                     ELSE /\ Continue("returned")
                          /\ idxClient' = FALSE /\ docClient' = FALSE
                          /\ ret' = TRUE
                          /\ log' = Append(log, DoneLine(JobNames[cur], total_uploaded'))
    /\ UNCHANGED <<envVars, mainVars, cur, index, line_num, records, lines,
                   published, errlog, delays>>

\* lines 111-113: except Exception: the error line is logged, return False.
\* The log write is outside every try: if it raises, the exception leaves
\* create_index.
HandleExceptionRollsBack ==
    /\ pc = "job" /\ cpc = "except"
    /\ remote' = [remote EXCEPT ![JobNames[cur]] = NoRemote]
    /\ \E lo \in LogOutcomes(0) :
        IF lo = "ok"
        THEN /\ errlog' = Append(errlog, <<JobNames[cur], exc>>)
             /\ log' = Append(log, ErrorLine(JobNames[cur], exc))
             /\ ret' = FALSE
             /\ cpc' = "returned"
             /\ UNCHANGED <<mainVars, faults>>
        ELSE /\ Uncaught("create_index")
             /\ cpc' = "raised"
             /\ UNCHANGED <<results, errlog, ret, log>>
    /\ UNCHANGED <<envVars, cur, exc, idxClient, docClient, localVars,
                   calls, lines, published, cause, delays>>
HandleException ==
    /\ pc = "job" /\ cpc = "except"
    /\ \E lo \in LogOutcomes(0) :
        IF lo = "ok"
        THEN /\ errlog' = Append(errlog, <<JobNames[cur], exc>>)
             /\ log' = Append(log, ErrorLine(JobNames[cur], exc))
             /\ ret' = FALSE
             /\ cpc' = "returned"
             /\ UNCHANGED <<mainVars, faults>>
        ELSE /\ Uncaught("create_index")
             /\ cpc' = "raised"
             /\ UNCHANGED <<results, errlog, ret, log>>
    /\ UNCHANGED <<envVars, cur, exc, idxClient, docClient, localVars, remote,
                   calls, lines, published, cause, delays>>

----------------------------------------------------------------------------
Next ==
    \/ MainStart
    \/ StoreResult
    \/ Delay
    \/ Summary
    \/ BeginJob
    \/ LoadSchema
    \/ PublishIndex
    \/ OpenRecords
    \/ ReadLine
    \/ UploadBatch
    \/ FlushRemaining
    \/ HandleException

\* the log sink never fails (the sink is an external collaborator, spec 1 and 6)
Spec == Init /\ [][Next]_vars

\* any log write may raise
SpecLogFaults == InitLogFaults /\ [][Next]_vars

----------------------------------------------------------------------------
\* Vocabulary of the properties

JobDone == cpc = "returned"
JobName == JobNames[cur]

\* no exception reached line 111 in the current job
NoJobFailure == cur > 0 /\ cause[cur] = "none"

AllCallsOk == \A i \in 1..Len(calls) : calls[i].ok
SomeCallFailed == \E i \in 1..Len(calls) : ~calls[i].ok

\* the records of the well-formed lines among the first n lines, in file order
RECURSIVE WellFormed(_, _)
WellFormed(ls, n) ==
    IF n = 0 THEN <<>>
    ELSE IF ls[n] = "good" THEN Append(WellFormed(ls, n - 1), n)
    ELSE WellFormed(ls, n - 1)

Malformed(ls) == {i \in 1..Len(ls) : ls[i] = "bad"}

\* a sequence cut into consecutive pieces of b elements, the last one shorter
RECURSIVE Chunks(_, _)
Chunks(s, b) ==
    IF s = <<>> THEN <<>>
    ELSE IF Len(s) <= b THEN <<s>>
    ELSE <<SubSeq(s, 1, b)>> \o Chunks(SubSeq(s, b + 1, Len(s)), b)

CeilDiv(n, b) == (n + b - 1) \div b

CallDocs(cs) == [i \in 1..Len(cs) |-> cs[i].docs]

AllSucceeded(d) == \A i \in 1..Len(d) : d[i][2]

----------------------------------------------------------------------------
\* C1: every exception raised by a step of create_index, a log write
\* included, is caught inside create_index, logged and turned into the
\* outcome False; none propagates from create_index to main.
C1_NoExceptionLeavesCreateIndex ==
    /\ crash # "create_index"
    /\ cpc # "raised"
    /\ (JobDone /\ cause[cur] # "none") =>
          /\ ret = FALSE
          /\ errlog # <<>>
          /\ errlog[Len(errlog)] = <<JobName, exc>>

\* C2: a failure of the first job never changes whether the second job runs
\* nor its outcome: once the run has ended without main itself failing, a
\* failed first job has outcome False, the second job was executed, its
\* outcome is True exactly when none of its own steps raised, and the exit
\* status is 1.
C2_FirstJobFailureLeavesSecondJob ==
    (pc = "exited" /\ dataDir /\ crash # "main" /\ cause[1] # "none") =>
        /\ cur = Len(JobNames)
        /\ Len(results) = Len(JobNames)
        /\ results[1] = <<JobNames[1], FALSE>>
        /\ results[2] = <<JobNames[2], cause[2] = "none">>
        /\ exitStatus = 1

\* C3: when all jobs have run, the exit status is 0 if and only if every
\* outcome in results is True, and 1 otherwise.
C3_ExitStatusIffAllSucceeded ==
    (pc = "exited" /\ Len(results) = Len(JobNames)) =>
        /\ exitStatus \in {0, 1}
        /\ exitStatus = 0 <=> AllSucceeded(results)

C3_Witness ==
    /\ pc = "exited" /\ Len(results) = Len(JobNames)
    /\ results[1][2] /\ ~results[2][2]
    /\ exitStatus = 1

\* C4: a job whose records file has N lines, all well-formed, and in which
\* nothing fails makes exactly ceil(N / batch_size) upload_documents calls,
\* every call but the last carries exactly batch_size records, and
\* total_uploaded ends at N.
C4_BatchCountAndSizes ==
    (JobDone /\ NoJobFailure /\ AllCallsOk /\ Malformed(lines) = {}) =>
        /\ Len(calls) = CeilDiv(Len(lines), batch_size)
        /\ \A i \in 1..(Len(calls) - 1) : Len(calls[i].docs) = batch_size
        /\ Len(calls) > 0 =>
              /\ Len(calls[Len(calls)].docs) >= 1
              /\ Len(calls[Len(calls)].docs) <= batch_size
        /\ total_uploaded = Len(lines)

C4_Witness ==
    /\ JobDone /\ NoJobFailure /\ AllCallsOk /\ Malformed(lines) = {}
    /\ Len(lines) > 2 * batch_size
    /\ Len(calls[Len(calls)].docs) < batch_size

\* C5: whatever the placement of malformed lines, when nothing fails the
\* uploaded batches are the batches of the file with the malformed lines
\* removed: the well-formed records in file order, cut every batch_size
\* records, and total_uploaded is the line count minus the malformed lines.
C5_MalformedLinesOnlyDrop ==
    (JobDone /\ NoJobFailure /\ AllCallsOk) =>
        /\ CallDocs(calls) = Chunks(WellFormed(lines, Len(lines)), batch_size)
        /\ total_uploaded = Len(lines) - Cardinality(Malformed(lines))

C5_Witness ==
    /\ JobDone /\ NoJobFailure /\ AllCallsOk
    /\ Len(calls) >= 2
    /\ \E i, j, k \in 1..Len(lines) :
          /\ i < j /\ j < k
          /\ lines[i] = "good" /\ lines[j] = "bad" /\ lines[k] = "good"
          /\ \E c \in 1..Len(calls) : i \in Docs(calls[c].docs) /\ k \in Docs(calls[c].docs)

\* C6: whenever a job returns True, its index was published and every
\* well-formed record of its file was in an upload_documents call that
\* succeeded.
C6_TrueMeansAllDelivered ==
    (JobDone /\ ret) =>
        /\ published
        /\ remote[JobName].exists
        /\ remote[JobName].index = index
        /\ \A n \in 1..Len(lines) :
              lines[n] = "good" =>
                 /\ \E i \in 1..Len(calls) : calls[i].ok /\ n \in Docs(calls[i].docs)
                 /\ n \in remote[JobName].docs

C6_Witness ==
    /\ JobDone /\ ret
    /\ SomeCallFailed
    /\ Malformed(lines) # {}
    /\ Len(WellFormed(lines, Len(lines))) > batch_size

\* C7: in every execution, service failures of any kind included, the batch
\* in memory never holds more than batch_size records and every
\* upload_documents call carries at most batch_size records.
C7_BatchNeverExceedsBound ==
    /\ Len(records) <= batch_size
    /\ \A i \in 1..Len(calls) : Len(calls[i].docs) <= batch_size

\* C8: once an upload_documents call of a job failed, whatever the error, no
\* further upload_documents call is made for that job and the job's outcome
\* is False; no record is sent in more than one call.
C8_NoUploadAfterFailedUpload ==
    /\ \A i \in 1..(Len(calls) - 1) : calls[i].ok
    /\ \A i, j \in 1..Len(calls) :
          i # j => Docs(calls[i].docs) \cap Docs(calls[j].docs) = {}
    /\ (JobDone /\ SomeCallFailed) => ret = FALSE

\* C9: an upload_documents call is made only after create_or_update_index
\* succeeded in that job; a job whose schema load or index publish failed
\* makes no upload call and ends with outcome False, and the other job's
\* recorded outcome and remote index are left as they were.
C9_JobStateMachine ==
    /\ calls # <<>> => published
    /\ cpc \in {"read", "upload", "flush"} => published
    /\ (cur > 0 /\ cause[cur] \in {"load", "publish"} /\ cpc # "except") =>
          /\ calls = <<>>
          /\ JobDone
          /\ ret = FALSE

\* C10: once the pre-run checks passed, every run that ends (without main
\* itself failing) has reached the summary with exactly one outcome per job,
\* in job order, and ends with an exit status; no job failure stops the run
\* before the second job has run.
C10_RunReachesSummary ==
    (pc = "exited" /\ dataDir /\ crash # "main") =>
        /\ crash = "none"
        /\ DictKeys(results) = JobNames
        /\ exitStatus \in {0, 1}


\* C11: jobs run strictly one after the other.  While job j runs, exactly
\* j - 1 outcomes are recorded and j - 1 delays have completed, whether the
\* earlier job succeeded or failed; no index of a later job has been touched
\* on the service and every log line that names an index names the running
\* job's.
C11_JobsStrictlySequential ==
    /\ delays <= Len(JobNames) - 1
    /\ pc = "job" =>
          /\ delays = cur - 1
          /\ Len(results) = cur - 1
          /\ DictKeys(results) = SubSeq(JobNames, 1, cur - 1)
    /\ pc = "delay" => delays = cur - 1 /\ Len(results) = cur
    /\ pc = "summary" => delays = Len(JobNames) - 1
    /\ \A j \in JobIds : j > cur => remote[JobNames[j]] = NoRemote
    /\ \A i \in 1..Len(log) : log[i].index_name \in {"", JobNames[cur]}

C11_Witness ==
    /\ pc = "job" /\ cur = Len(JobNames)
    /\ results[1] = <<JobNames[1], FALSE>>
    /\ delays = 1
    /\ remote[JobNames[cur]].docs # {}

\* C12: if the data directory does not exist, no job is executed: no client
\* is opened, no service call is made, no job-level log line is written, and
\* the process exits with status 1.
C12_NoDataDirNoJob ==
    ~dataDir =>
        /\ cur = 0 /\ cpc = "idle"
        /\ ~idxClient /\ ~docClient
        /\ \A j \in JobIds : remote[JobNames[j]] = NoRemote
        /\ log = <<>> /\ errlog = <<>> /\ results = <<>>
        /\ pc \in {"start", "exited"}
        /\ pc = "exited" => exitStatus = 1

C12_Witness == ~dataDir /\ pc = "exited" /\ crash = "none" /\ exitStatus = 1

\* C13: a job whose index was published and whose records file exists but
\* holds no well-formed line makes no upload_documents call and returns True
\* with total_uploaded 0; no upload_documents call ever carries zero records.
C13_EmptyFileSucceeds ==
    /\ \A i \in 1..Len(calls) : Len(calls[i].docs) >= 1
    /\ (/\ JobDone /\ published
        /\ cause[cur] \notin {"open_docs", "records_missing"}
        /\ WellFormed(lines, Len(lines)) = <<>>) =>
          /\ calls = <<>>
          /\ ret
          /\ total_uploaded = 0

C13_Witness ==
    /\ JobDone /\ published /\ ret
    /\ lines # <<>> /\ WellFormed(lines, Len(lines)) = <<>>
    /\ calls = <<>> /\ total_uploaded = 0

\* the documents counted by the successful calls among the first n calls
RECURSIVE SumOk(_, _)
SumOk(cs, n) ==
    IF n = 0 THEN 0
    ELSE SumOk(cs, n - 1) + (IF cs[n].ok THEN Len(cs[n].docs) ELSE 0)

C15_MissingRecordsFileFails ==
    (cur > 0 /\ cause[cur] = "records_missing" /\ cpc # "except") =>
        /\ calls = <<>>
        /\ lines = <<>>
        /\ JobDone
        /\ ret = FALSE

\* C16: at most one client is open at any time, and none outside the step
\* that uses it: every client a job opened is closed before the job returns
\* or raises, so none is open during the delay or when the next job starts.
C16_ClientsScopedPerOperation ==
    /\ ~(idxClient /\ docClient)
    /\ cpc \in {"idle", "begin", "except", "returned", "raised"} =>
          ~idxClient /\ ~docClient
    /\ pc \in {"start", "delay", "summary", "exited"} => ~idxClient /\ ~docClient
    /\ idxClient => cpc \in {"load", "publish"}
    /\ docClient => cpc \in {"read", "upload", "flush"}

C16_Witness ==
    /\ pc = "delay" /\ ~idxClient /\ ~docClient
    /\ cause[cur] = "upload"
    /\ ~ret

Warnings(n) ==
    {i \in 1..Len(log) : log[i].text = "Skipping invalid JSON" /\ log[i].n = n}

\* C17 as stated: each malformed line produces exactly one warning carrying
\* the index name, the 1-based line number and the parse error message; the
\* line is not added to the batch and reading continues.
C17_WarningCarriesIndexName ==
    \A n \in Malformed(lines) :
        /\ Cardinality(Warnings(n)) = 1
        /\ \A i \in Warnings(n) :
              /\ log[i].index_name = JobName
              /\ log[i].detail = "JSONDecodeError"
        /\ n \notin Docs(records)
        /\ \A c \in 1..Len(calls) : n \notin Docs(calls[c].docs)
        /\ cause[cur] # "warning_log"

\* C17 as amended: the warning carries the 1-based line number and the parse
\* error message, and no index name.
C17_WarningPerMalformedLine ==
    \A n \in Malformed(lines) :
        /\ Cardinality(Warnings(n)) = 1
        /\ \A i \in Warnings(n) :
              /\ log[i].index_name = ""
              /\ log[i].detail = "JSONDecodeError"
        /\ n \notin Docs(records)
        /\ \A c \in 1..Len(calls) : n \notin Docs(calls[c].docs)
        /\ cause[cur] # "warning_log"

C17_Witness ==
    /\ JobDone /\ ret
    /\ Cardinality(Malformed(lines)) >= 2
    /\ lines[1] = "good" /\ lines[Len(lines)] = "good"
    /\ \A n \in Malformed(lines) : Cardinality(Warnings(n)) = 1

\* C18: the definition submitted for a job is the definition of the schema
\* file with the job's name and with the configured endpoint in its first
\* vectorizer; further vectorizers and every other field are unchanged, and
\* the overwrites are done when create_or_update_index is called.
C18_OnlyNameAndFirstEndpointChange ==
    (cur > 0 /\ (cpc = "publish" \/ published)) =>
        LET d == indexFile.def
            sent == IF published THEN remote[JobName].index ELSE index
        IN  /\ sent.name = JobName
            /\ Len(sent.vectorizers) = Len(d.vectorizers)
            /\ sent.vectorizers[1] = azure_openai_endpoint
            /\ \A i \in 2..Len(d.vectorizers) : sent.vectorizers[i] = d.vectorizers[i]
            /\ sent.fields = d.fields

C18_Witness ==
    /\ cur > 0 /\ published
    /\ Len(indexFile.def.vectorizers) = 2
    /\ remote[JobName].index.vectorizers = <<azure_openai_endpoint, "other">>

\* C19: if the schema file has an empty vectorizer list, the job never calls
\* create_or_update_index, uploads nothing and its outcome is False.
C19_EmptyVectorizersFailsJob ==
    (/\ cur > 0
     /\ indexFile.state = "ok" /\ Len(indexFile.def.vectorizers) = 0
     /\ cpc \notin {"begin", "load", "except"}) =>
        /\ ~published
        /\ remote[JobName] = NoRemote
        /\ calls = <<>>
        /\ JobDone
        /\ ret = FALSE

\* C20: a job failure never undoes remote effects.  A job that returns False
\* leaves its published definition and the records of its successful calls
\* on the service, and no step of the run ever removes a definition or a
\* document.
C20_FailureKeepsRemoteEffects ==
    /\ [](JobDone /\ ~ret =>
            /\ published => remote[JobName].exists /\ remote[JobName].index = index
            /\ \A i \in 1..Len(calls) :
                  calls[i].ok => Docs(calls[i].docs) \subseteq remote[JobName].docs)
    /\ [][\A j \in JobIds :
            /\ remote[JobNames[j]].exists => remote'[JobNames[j]].exists
            /\ remote[JobNames[j]].docs \subseteq remote'[JobNames[j]].docs]_vars

C20_Witness ==
    /\ pc = "exited" /\ crash = "none" /\ Len(results) = Len(JobNames)
    /\ results[1] = <<JobNames[1], FALSE>>
    /\ remote[JobNames[1]].exists
    /\ remote[JobNames[1]].docs # {}

====
